---------------------------- MODULE Spec2Model ----------------------------
(***************************************************************************)
(* Model of the publish/subscribe coordinator of                           *)
(* src/framework/message/index.js (Message: pub, sub, _multiSubHandler,    *)
(* generate) on top of Node's EventEmitter.                                *)
(*                                                                         *)
(* One action is one top-level call of pub or sub, run to completion       *)
(* (the module is single threaded and synchronous): the operators below    *)
(* thread the whole object state, a record m, through every statement of   *)
(* the call, reentrant calls made by handlers included.                    *)
(*                                                                         *)
(* Topics are strings; they are modelled as sequences of one-character     *)
(* strings so that join(',') and indexOf are computed as JavaScript        *)
(* computes them.                                                          *)
(***************************************************************************)
EXTENDS Integers, Sequences, FiniteSets, TLC

\* ------------------------------------------------------------ bounds
\* top-level pub calls in a behaviour
MaxPubs == 4
\* sub calls in a behaviour
MaxSubs == 2
\* top-level pub calls in a behaviour of the specifications with more kinds
\* of calls
MaxPubsShort == 3

\* ------------------------------------------------------------ values
\* data = typeof data !== 'undefined' ? data : null: the two JavaScript
\* values are modelled by two numbers no payload uses (payloads are >= 1)
Undefined == -1
Null == 0

A == <<"a">>
B == <<"b">>
AB == <<"a", "b">>
\* the topic 'error' of the report of a sub call without topics or handler
ErrorTopic == <<"e", "r", "r", "o", "r">>
\* the report { file: __filename, err: 'Invalid subscribe event.' }
errReport == -2

EmptyMap == [t \in {} |-> Null]

Put(f, k, v) == [x \in (DOMAIN f) \cup {k} |-> IF x = k THEN v ELSE f[x]]

\* mutant of join: the key is built from the topics in one fixed order,
\* whatever the order of the arguments
RECURSIVE joinInOrder(_)
joinInOrder(ids) ==
  IF Len(ids) = 0 THEN <<>>
  ELSE IF Len(ids) = 1 THEN ids[1]
  ELSE ids[1] \o <<",">> \o joinInOrder(Tail(ids))
join_sorted(messageIds) ==
  LET set == {messageIds[k] : k \in 1..Len(messageIds)}
  IN IF Cardinality(set) # Len(messageIds) THEN joinInOrder(messageIds)
     ELSE joinInOrder(CHOOSE q \in [1..Len(messageIds) -> set] :
                        {q[k] : k \in 1..Len(messageIds)} = set)

\* Array.prototype.join(',')
RECURSIVE join(_)
join(messageIds) ==
  IF Len(messageIds) = 0 THEN <<>>
  ELSE IF Len(messageIds) = 1 THEN messageIds[1]
  ELSE messageIds[1] \o <<",">> \o join(Tail(messageIds))

\* String.prototype.indexOf: first 0-based position of sub in s, or -1
indexOf(s, sub) ==
  LET At(i) == /\ i + Len(sub) <= Len(s)
               /\ \A j \in 1..Len(sub) : s[i + j] = sub[j]
      hits == {i \in 0..Len(s) : At(i)}
  IN IF hits = {} THEN 0 - 1 ELSE CHOOSE i \in hits : \A h \in hits : i <= h

\* Array.prototype.splice(k, 1), k 0-based: nothing when k is past the end
splice(arr, k) ==
  IF k >= Len(arr) THEN arr
  ELSE [x \in 1..(Len(arr) - 1) |-> IF x <= k THEN arr[x] ELSE arr[x + 1]]

\* the envelope; its time field is read by nothing in the module
generate(messageId) == [id |-> messageId]

\* ------------------------------------------------------------ state
VARIABLES
  storePub,           \* this._storePub
  publishedMessages,  \* this._publishedMessages: topic -> last stored data
  multiSubList,       \* this._multiSubList: key -> [messageIds, handlers, dataList]
  events,             \* this._emitter: topic -> listeners in registration order
  fired,              \* once wrappers of the emitter that have run
  nextLid,            \* identity of the next listener registered
  threw,              \* an exception left the last top-level call
  \* history, written by the model only
  subs,               \* every sub call: its arguments and the handler's behaviour
  pubs,               \* every pub call, reentrant ones included, in call order
  log,                \* every invocation of a caller's handler, in order
  passes,             \* every completion pass of _multiSubHandler
  ctx,                \* who is invoking handlers right now
  nTop                \* top-level pub calls so far

vars == <<storePub, publishedMessages, multiSubList, events, fired, nextLid, threw,
          subs, pubs, log, passes, ctx, nTop>>

Cur == [storePub |-> storePub, publishedMessages |-> publishedMessages,
        multiSubList |-> multiSubList, events |-> events, fired |-> fired,
        nextLid |-> nextLid, threw |-> threw, subs |-> subs, pubs |-> pubs,
        log |-> log, passes |-> passes, ctx |-> ctx, nTop |-> nTop]

\* nobody is invoking handlers
NoCtx == [via |-> "none", pid |-> 0, pass |-> 0, call |-> 0]

Becomes(m) ==
  /\ storePub' = m.storePub
  /\ publishedMessages' = m.publishedMessages
  /\ multiSubList' = m.multiSubList
  /\ events' = m.events
  /\ fired' = m.fired
  /\ nextLid' = m.nextLid
  /\ threw' = m.threw
  /\ subs' = m.subs
  /\ pubs' = m.pubs
  /\ log' = m.log
  /\ passes' = m.passes
  /\ ctx' = NoCtx
  /\ nTop' = m.nTop

\* new Message(storePub): storePub === undefined ? true : !!storePub
Init ==
  /\ storePub \in BOOLEAN
  /\ publishedMessages = EmptyMap
  /\ multiSubList = [k \in {} |-> 0]
  /\ events = [t \in {} |-> <<>>]
  /\ fired = {}
  /\ nextLid = 1
  /\ threw = FALSE
  /\ subs = <<>>
  /\ pubs = <<>>
  /\ log = <<>>
  /\ passes = <<>>
  /\ ctx = NoCtx
  /\ nTop = 0

\* ------------------------------------------------------------ emitter
userFn(s) == [kind |-> "user", sub |-> s, key |-> <<>>]
\* function (message, data) { app._multiSubHandler(messageIdsKey, message.id, data) }
adapterFn(messageIdsKey) == [kind |-> "adapter", sub |-> 0, key |-> messageIdsKey]

listeners(m, type) == IF type \in DOMAIN m.events THEN m.events[type] ELSE <<>>

\* emitFn.call(app._emitter, messageId, handler): EventEmitter.on / .once
addListener(m, type, fn, once) ==
  [m EXCEPT !.events = Put(@, type, Append(listeners(m, type),
                                           [fn |-> fn, once |-> once, lid |-> m.nextLid])),
            !.nextLid = @ + 1]

\* EventEmitter.removeListener of one registration
removeListener(m, type, lid) ==
  [m EXCEPT !.events = Put(@, type, SelectSeq(listeners(m, type),
                                              LAMBDA l : l.lid # lid))]

RECURSIVE pub(_, _, _)
RECURSIVE emitLoop(_, _, _, _, _, _, _)
RECURSIVE callListener(_, _, _, _)
RECURSIVE invoke(_, _, _, _)
RECURSIVE multiSubHandler(_, _, _, _)
RECURSIVE forEachHandler(_, _, _, _, _)

\* The caller's handler of subscription s, called with (message, data) or
\* (message, dataList).  A handler either returns at once or, as the handlers
\* of src/test/index.js do, calls app.pub; the handlers modelled publish the
\* first topic of their own subscription, the first time they run.
invoke(m, s, data, map) ==
  LET first == \A i \in 1..Len(m.log) : m.log[i].sub # s
      m1 == [m EXCEPT !.log = Append(@, [sub |-> s, data |-> data, map |-> map,
                                         via |-> m.ctx.via, pid |-> m.ctx.pid,
                                         pass |-> m.ctx.pass, call |-> m.ctx.call,
                                         npubs |-> Len(m.pubs)])]
  IN IF m.subs[s].re /\ first
     THEN pub(m1, m.subs[s].messageIds[1], Len(m1.pubs) + 1)
     ELSE m1

callListener(m, fn, message, data) ==
  IF fn.kind = "user"
  THEN invoke(m, fn.sub, data, EmptyMap)
  ELSE multiSubHandler(m, fn.key, message.id, data)

\* EventEmitter.emit: the listeners registered when emit starts are called in
\* registration order; a once listener is removed, then called, and is never
\* called a second time.
emitLoop(m, type, ls, i, message, data, pid) ==
  IF i > Len(ls) THEN m
  ELSE LET l == ls[i]
           m1 == IF l.once THEN removeListener(m, type, l.lid) ELSE m
       IN IF l.once /\ l.lid \in m.fired
          THEN emitLoop(m1, type, ls, i + 1, message, data, pid)
          ELSE LET m2 == [m1 EXCEPT !.fired = IF l.once THEN @ \cup {l.lid} ELSE @,
                                    !.ctx = [via |-> "emit", pid |-> pid, pass |-> 0,
                                             call |-> m.ctx.call]]
                   m3 == callListener(m2, l.fn, message, data)
               IN emitLoop(m3, type, ls, i + 1, message, data, pid)

\* this.emit(type, message, data) of events.EventEmitter; an 'error' event
\* that has no listener is thrown by emit, and the throw leaves every call
\* that is in progress
emit(m, type, message, data, pid) ==
  IF type = ErrorTopic /\ Len(listeners(m, type)) = 0
  THEN [m EXCEPT !.threw = TRUE]
  ELSE emitLoop(m, type, listeners(m, type), 1, message, data, pid)

\* ------------------------------------------------------------ _multiSubHandler
\* multi['handlers'].forEach(function (handler, k) {...}): k runs over the
\* length the array had when forEach started; an index the array no longer
\* holds is passed over; splice(k, 1) works on the live array.
forEachHandler(m, messageIdsKey, k, len, passId) ==
  IF k >= len THEN m
  ELSE IF \/ messageIdsKey \notin DOMAIN m.multiSubList
          \/ k >= Len(m.multiSubList[messageIdsKey].handlers)
       THEN forEachHandler(m, messageIdsKey, k + 1, len, passId)
       ELSE LET multi == m.multiSubList[messageIdsKey]
                handler == multi.handlers[k + 1]
                m1 == invoke([m EXCEPT !.ctx = [via |-> "pass", pid |-> m.passes[passId].pid,
                                                pass |-> passId, call |-> m.ctx.call]],
                             handler.handler, Null, multi.dataList)
                m2 == IF handler.isOnce /\ messageIdsKey \in DOMAIN m1.multiSubList
                      THEN [m1 EXCEPT !.multiSubList[messageIdsKey].handlers = splice(@, k)]
                      ELSE m1
            IN forEachHandler(m2, messageIdsKey, k + 1, len, passId)

\* lines 227-232: multi['dataList'] = {}; the group is deleted when it holds
\* no handler.  A group an inner pass deleted holds no handler and is not in
\* the list any more: clearing it and deleting its key change nothing.
\* mutant of endPass: the group is cleared and never deleted
endPass_keepsGroup(m, messageIdsKey) ==
  IF messageIdsKey \notin DOMAIN m.multiSubList THEN m
  ELSE [m EXCEPT !.multiSubList[messageIdsKey].dataList = EmptyMap]

endPass(m, messageIdsKey) ==
  IF messageIdsKey \notin DOMAIN m.multiSubList THEN m
  ELSE IF Len(m.multiSubList[messageIdsKey].handlers) = 0
       THEN [m EXCEPT !.multiSubList =
                        [i \in (DOMAIN @) \ {messageIdsKey} |-> @[i]]]
       ELSE [m EXCEPT !.multiSubList[messageIdsKey].dataList = EmptyMap]

multiSubHandler(m, messageIdsKey, messageId, data) ==
  IF messageIdsKey \notin DOMAIN m.multiSubList THEN m
  ELSE LET m1 == [m EXCEPT !.multiSubList[messageIdsKey].dataList = Put(@, messageId, data)]
           multi == m1.multiSubList[messageIdsKey]
       IN IF Cardinality(DOMAIN multi.dataList) = Len(multi.messageIds)
          THEN LET passId == Len(m1.passes) + 1
                   m2 == [m1 EXCEPT !.passes =
                            Append(@, [key |-> messageIdsKey,
                                       start |-> [j \in 1..Len(multi.handlers) |->
                                                    multi.handlers[j].handler],
                                       map |-> multi.dataList, pid |-> m.ctx.pid])]
               IN endPass(forEachHandler(m2, messageIdsKey, 0, Len(multi.handlers), passId),
                          messageIdsKey)
          ELSE m1

\* ------------------------------------------------------------ pub
\* lines 62-76: a topic published before is written straight into the
\* dataList of every group whose key contains it and that holds a once handler
overwriteJoined(m, messageId, data) ==
  IF messageId \in DOMAIN m.publishedMessages
  THEN [m EXCEPT !.multiSubList =
          [i \in DOMAIN @ |->
             IF /\ indexOf(i, messageId) # 0 - 1
                /\ \E j \in 1..Len(@[i].handlers) : @[i].handlers[j].isOnce
             THEN [@[i] EXCEPT !.dataList = Put(@, messageId, data)]
             ELSE @[i]]]
  ELSE m

\* mutant of store: the data is stored whatever storePub is
store_always(m, messageId, data) ==
  [m EXCEPT !.publishedMessages = Put(@, messageId, data)]

\* mutant of store: a topic that has a stored value keeps it
store_keepsFirst(m, messageId, data) ==
  IF m.storePub /\ messageId \notin DOMAIN m.publishedMessages
  THEN [m EXCEPT !.publishedMessages = Put(@, messageId, data)]
  ELSE m

\* lines 79-81
store(m, messageId, data) ==
  IF m.storePub
  THEN [m EXCEPT !.publishedMessages = Put(@, messageId, data)]
  ELSE m

\* mutant of pub: data that was not passed stays undefined
pub_keepsUndefined(m, messageId, dataArg) ==
  LET data == dataArg
      m0 == [m EXCEPT !.pubs = Append(@, [topic |-> messageId, data |-> data,
                                          arg |-> dataArg])]
      pid == Len(m0.pubs)
      m1 == overwriteJoined(m0, messageId, data)
      message == generate(messageId)
      m2 == store(m1, messageId, data)
  IN emit(m2, messageId, message, data, pid)

pub(m, messageId, dataArg) ==
  LET data == IF dataArg = Undefined THEN Null ELSE dataArg
      m0 == [m EXCEPT !.pubs = Append(@, [topic |-> messageId, data |-> data,
                                          arg |-> dataArg])]
      pid == Len(m0.pubs)
      m1 == overwriteJoined(m0, messageId, data)
      message == generate(messageId)
      m2 == store(m1, messageId, data)
  IN emit(m2, messageId, message, data, pid)

\* ------------------------------------------------------------ sub
\* lines 141-146: the two optional arguments after the handler
subPublishedOf(rest) == IF Len(rest) >= 1 THEN rest[1] ELSE TRUE
isOnceOf(rest) == IF Len(rest) >= 2 THEN rest[2] ELSE TRUE

\* lines 155-159
createGroup(m, messageIds, s, subPublished, isOnce) ==
  [m EXCEPT !.multiSubList =
     Put(@, join(messageIds),
         [messageIds |-> messageIds,
          handlers |-> <<[handler |-> s, subPublished |-> subPublished, isOnce |-> isOnce]>>,
          dataList |-> EmptyMap])]

\* lines 164-185: a subscription to a group that exists.  needAddHandler is
\* declared inside the if of line 164: when that condition is false it is
\* undefined, and line 178 adds nothing.  Line 179 reads the group again after
\* the handler has run: a group the handler's publish completed and deleted is
\* undefined there, and the push throws.
joinGroup(m, messageIds, s, subPublished, isOnce) ==
  LET messageIdsKey == join(messageIds)
      replay == m.storePub /\ subPublished
      tmpDataList == [v \in {messageIds[k] : k \in 1..Len(messageIds)}
                              \cap DOMAIN m.publishedMessages |-> m.publishedMessages[v]]
      all == replay /\ Cardinality(DOMAIN tmpDataList) = Len(messageIds)
      needAddHandler == replay /\ ~(all /\ isOnce)
      m1 == IF all
            THEN invoke([m EXCEPT !.ctx = [via |-> "replay", pid |-> 0, pass |-> 0,
                                           call |-> m.ctx.call]],
                        s, Null, tmpDataList)
            ELSE m
  IN IF ~needAddHandler THEN m1
     ELSE IF messageIdsKey \notin DOMAIN m1.multiSubList
          THEN [m1 EXCEPT !.threw = TRUE]
          ELSE [m1 EXCEPT !.multiSubList[messageIdsKey].handlers =
                  Append(@, [handler |-> s, subPublished |-> subPublished,
                             isOnce |-> isOnce])]

RECURSIVE subscribeEach(_, _, _, _, _, _, _)

\* mutant of subscribeEach: a replayed handler is not registered, whether
\* once or not
subscribeEach_replayOrRegister(m, messageIds, k, handler, subPublished, isOnce, needSub) ==
  IF k > Len(messageIds) THEN m
  ELSE LET messageId == messageIds[k]
           replay == messageId \in DOMAIN m.publishedMessages /\ subPublished
           m1 == IF replay
                 THEN callListener([m EXCEPT !.ctx = [via |-> "replay", pid |-> 0,
                                                      pass |-> 0, call |-> m.ctx.call]],
                                   handler, generate(messageId),
                                   m.publishedMessages[messageId])
                 ELSE m
           needSub1 == IF replay THEN FALSE ELSE needSub
           m2 == IF needSub1 THEN addListener(m1, messageId, handler, isOnce) ELSE m1
       IN subscribeEach(m2, messageIds, k + 1, handler, subPublished, isOnce, needSub1)

\* mutant of subscribeEach: line 194 is missing, a replayed once handler is
\* registered all the same
subscribeEach_keepsNeedSub(m, messageIds, k, handler, subPublished, isOnce, needSub) ==
  IF k > Len(messageIds) THEN m
  ELSE LET messageId == messageIds[k]
           replay == messageId \in DOMAIN m.publishedMessages /\ subPublished
           m1 == IF replay
                 THEN callListener([m EXCEPT !.ctx = [via |-> "replay", pid |-> 0,
                                                      pass |-> 0, call |-> m.ctx.call]],
                                   handler, generate(messageId),
                                   m.publishedMessages[messageId])
                 ELSE m
           m2 == IF needSub THEN addListener(m1, messageId, handler, isOnce) ELSE m1
       IN subscribeEach(m2, messageIds, k + 1, handler, subPublished, isOnce, needSub)

\* mutant of subscribeEach: line 149 is missing, emitFn is always once
subscribeEach_alwaysOnce(m, messageIds, k, handler, subPublished, isOnce, needSub) ==
  IF k > Len(messageIds) THEN m
  ELSE LET messageId == messageIds[k]
           replay == messageId \in DOMAIN m.publishedMessages /\ subPublished
           m1 == IF replay
                 THEN callListener([m EXCEPT !.ctx = [via |-> "replay", pid |-> 0,
                                                      pass |-> 0, call |-> m.ctx.call]],
                                   handler, generate(messageId),
                                   m.publishedMessages[messageId])
                 ELSE m
           needSub1 == IF replay /\ isOnce THEN FALSE ELSE needSub
           m2 == IF needSub1 THEN addListener(m1, messageId, handler, TRUE) ELSE m1
       IN subscribeEach(m2, messageIds, k + 1, handler, subPublished, isOnce, needSub1)

\* lines 189-200: messageIds.forEach; needSub is one variable of the whole call
subscribeEach(m, messageIds, k, handler, subPublished, isOnce, needSub) ==
  IF k > Len(messageIds) THEN m
  ELSE LET messageId == messageIds[k]
           replay == messageId \in DOMAIN m.publishedMessages /\ subPublished
           m1 == IF replay
                 THEN callListener([m EXCEPT !.ctx = [via |-> "replay", pid |-> 0,
                                                      pass |-> 0, call |-> m.ctx.call]],
                                   handler, generate(messageId),
                                   m.publishedMessages[messageId])
                 ELSE m
           needSub1 == IF replay /\ isOnce THEN FALSE ELSE needSub
           m2 == IF needSub1 THEN addListener(m1, messageId, handler, isOnce) ELSE m1
       IN subscribeEach(m2, messageIds, k + 1, handler, subPublished, isOnce, needSub1)

\* sub(messageId1, ..., handler, subPublished, isOnce); s names the handler
sub(m, messageIds, s, rest) ==
  LET subPublished == subPublishedOf(rest)
      isOnce == isOnceOf(rest)
  IN IF Len(messageIds) > 1
     THEN IF join(messageIds) \notin DOMAIN m.multiSubList
          THEN subscribeEach(createGroup(m, messageIds, s, subPublished, isOnce),
                             messageIds, 1, adapterFn(join(messageIds)),
                             subPublished, isOnce, TRUE)
          ELSE joinGroup(m, messageIds, s, subPublished, isOnce)
     ELSE subscribeEach(m, messageIds, 1, userFn(s), subPublished, isOnce, TRUE)

\* ------------------------------------------------------------ calls
\* app.pub(messageId, data), called from outside any handler; the data of
\* the n-th publish of a behaviour is n, so that every publish is told apart
PubCall(messageId) ==
  /\ ~threw
  /\ nTop < MaxPubs
  /\ Becomes(pub([Cur EXCEPT !.nTop = @ + 1,
                             !.ctx = [NoCtx EXCEPT !.call = nTop + Len(subs) + 1]],
                 messageId, Len(pubs) + 1))

\* app.sub(messageIds..., handler, rest...), called from outside any handler
SubCall(messageIds, rest, re) ==
  /\ ~threw
  /\ Len(subs) < MaxSubs
  /\ LET s == Len(subs) + 1
         call == nTop + Len(subs) + 1
         m0 == [Cur EXCEPT !.subs = Append(@, [messageIds |-> messageIds,
                                               subPublished |-> subPublishedOf(rest),
                                               isOnce |-> isOnceOf(rest),
                                               re |-> re, call |-> call,
                                               pubsBefore |-> Len(pubs),
                                               pubsInside |-> 0,
                                               existed |-> join(messageIds)
                                                             \in DOMAIN multiSubList,
                                               valid |-> TRUE]),
                           !.ctx = [NoCtx EXCEPT !.call = call]]
         m1 == sub(m0, messageIds, s, rest)
     IN Becomes([m1 EXCEPT !.subs[s].pubsInside = Len(m1.pubs) - Len(pubs)])

\* app.sub(messageIds...) with no function after the strings, or
\* app.sub(handler) with no string before it (lines 129-140): the report is
\* published on 'error' and the call returns
InvalidSubCall(messageIds, hasHandler) ==
  /\ ~threw
  /\ Len(subs) < MaxSubs
  /\ ~hasHandler \/ Len(messageIds) < 1
  /\ LET s == Len(subs) + 1
         call == nTop + Len(subs) + 1
         m0 == [Cur EXCEPT !.subs = Append(@, [messageIds |-> messageIds,
                                               subPublished |-> TRUE,
                                               isOnce |-> FALSE,
                                               re |-> FALSE, call |-> call,
                                               pubsBefore |-> Len(pubs),
                                               pubsInside |-> 0,
                                               existed |-> FALSE,
                                               valid |-> FALSE]),
                           !.ctx = [NoCtx EXCEPT !.call = call]]
         m1 == pub(m0, ErrorTopic, errReport)
     IN Becomes([m1 EXCEPT !.subs[s].pubsInside = Len(m1.pubs) - Len(pubs)])

\* app.pub(messageId) with no data, called from outside any handler
PubNoData(messageId) ==
  /\ ~threw
  /\ nTop < MaxPubsShort
  /\ Becomes(pub([Cur EXCEPT !.nTop = @ + 1,
                             !.ctx = [NoCtx EXCEPT !.call = nTop + Len(subs) + 1]],
                 messageId, Undefined))

\* the same call in a behaviour of at most MaxPubsShort top-level pub calls
PubShort(messageId) == nTop < MaxPubsShort /\ PubCall(messageId)

\* the argument lists of the doc comment of sub (lines 97-115)
Rests == {<<>>, <<FALSE>>, <<TRUE, FALSE>>, <<FALSE, FALSE>>}
\* the same with subPublished left at its default
RestsDefault == {<<>>, <<TRUE, FALSE>>}

\* join subscriptions on two topics, in both orders
TopicsJ == {A, B}
ListsJ == {<<A, B>>, <<B, A>>}
PubJ == \E t \in TopicsJ : PubCall(t)
SubJ == \E ids \in ListsJ, rest \in RestsDefault, re \in BOOLEAN : SubCall(ids, rest, re)
NextJ == PubJ \/ SubJ
SpecJ == Init /\ [][NextJ]_vars

\* subscriptions on the single topic "a", and publishes of "a" and "b"
TopicsS == {A, B}
ListsS == {<<A>>}
PubS == \E t \in TopicsS : PubCall(t)
SubS == \E ids \in ListsS, rest \in Rests, re \in BOOLEAN : SubCall(ids, rest, re)
NextS == PubS \/ SubS
SpecS == Init /\ [][NextS]_vars

\* a Message made with storePub false: subscriptions on "a" and on "a", "b"
\* with subPublished left at its default, and publishes of "a" and "b"
InitR == Init /\ storePub = FALSE
ListsR == {<<A>>, <<A, B>>}
PubR == \E t \in TopicsJ : PubShort(t)
SubR == \E ids \in ListsR, rest \in RestsDefault, re \in BOOLEAN : SubCall(ids, rest, re)
NextR == PubR \/ SubR
SpecR == InitR /\ [][NextR]_vars

\* subscriptions on "error" and on "a" whose handlers publish nothing, sub
\* calls without a topic or without a handler, and publishes of "a"
ListsE == {<<ErrorTopic>>, <<A>>}
PubE == PubShort(A)
SubE == \E ids \in ListsE, rest \in Rests : SubCall(ids, rest, FALSE)
InvalidSubE == InvalidSubCall(<<>>, TRUE) \/ InvalidSubCall(<<A>>, FALSE)
NextE == PubE \/ SubE \/ InvalidSubE
SpecE == Init /\ [][NextE]_vars

\* subscriptions on "a" and on "b" with subPublished left at its default,
\* publishes of "a" with data and without, and publishes of "b" without
ListsN == {<<A>>, <<B>>}
PubN == PubShort(A) \/ \E t \in TopicsJ : PubNoData(t)
SubN == \E ids \in ListsN, rest \in RestsDefault : SubCall(ids, rest, FALSE)
NextN == PubN \/ SubN
SpecN == Init /\ [][NextN]_vars

\* join subscriptions on "a", "b" with every argument list, and publishes of
\* "a" and "b"
ListsG == {<<A, B>>}
PubG == \E t \in TopicsJ : PubShort(t)
SubG == \E ids \in ListsG, rest \in Rests, re \in BOOLEAN : SubCall(ids, rest, re)
NextG == PubG \/ SubG
SpecG == Init /\ [][NextG]_vars

\* a join subscription on "ab" and "b", and publishes of "a", "b" and "ab":
\* "a" is no topic of the group and is a substring of its key "ab,b"
TopicsK == {A, B, AB}
ListsK == {<<AB, B>>}
PubK == \E t \in TopicsK : PubCall(t)
SubK == \E ids \in ListsK, rest \in Rests, re \in BOOLEAN : SubCall(ids, rest, re)
NextK == PubK \/ SubK
SpecK == Init /\ [][NextK]_vars

\* ------------------------------------------------------------ history
isJoin(s) == Len(subs[s].messageIds) > 1
topicsOf(s) == {subs[s].messageIds[k] : k \in 1..Len(subs[s].messageIds)}
\* the invocations of the handler of subscription s, as positions of log
callsOf(s) == {i \in 1..Len(log) : log[i].sub = s}
\* the topics published by the first n pub calls
publishedBy(n) == {pubs[i].topic : i \in 1..n}
\* the data of the last of the first n pub calls that published topic t
latest(t, n) ==
  LET last == CHOOSE i \in 1..n :
                /\ pubs[i].topic = t
                /\ \A j \in (i + 1)..n : pubs[j].topic # t
  IN pubs[last].data
\* whether subscription s is in the handler list of its join group
inGroup(s) ==
  /\ join(subs[s].messageIds) \in DOMAIN multiSubList
  /\ \E j \in 1..Len(multiSubList[join(subs[s].messageIds)].handlers) :
        multiSubList[join(subs[s].messageIds)].handlers[j].handler = s
\* how many times the pub calls from the i-th on have published every topic
\* of T anew (need: the topics of T still missing in the current round)
RECURSIVE cycles(_, _, _)
cycles(T, i, need) ==
  IF i > Len(pubs) THEN 0
  ELSE IF need \ {pubs[i].topic} = {}
       THEN 1 + cycles(T, i + 1, T)
       ELSE cycles(T, i + 1, need \ {pubs[i].topic})
\* s is the only subscription with its list of topics, in its order
alone(s) == \A r \in 1..Len(subs) : r # s => subs[r].messageIds # subs[s].messageIds
\* the list read backwards
reverse(ids) == [k \in 1..Len(ids) |-> ids[Len(ids) + 1 - k]]
\* the first pub call by which every topic of s has been published, 0 if none
completedAt(s) ==
  LET done == {n \in 1..Len(pubs) : topicsOf(s) \subseteq publishedBy(n)}
  IN IF done = {} THEN 0 ELSE CHOOSE n \in done : \A x \in done : n <= x
\* the subscriptions on one topic
isSingle(s) == Len(subs[s].messageIds) = 1
\* whether a listener calling the handler of s is registered for topic t
registered(s, t) ==
  /\ t \in DOMAIN events
  /\ \E k \in 1..Len(events[t]) : events[t][k].fn = userFn(s)
\* the invocations of s made inside the sub call that made s
callsInSub(s) == {i \in callsOf(s) : log[i].call = subs[s].call}
\* no handler publishes
NoReentry == \A s \in 1..Len(subs) : ~subs[s].re

\* ------------------------------------------------------------ claims

\* C1: in every completion pass of a join group, every subscription that is
\* in the group's handler list when the pass starts is invoked exactly once
\* in that pass, with a map holding every topic of the group.
C1_EveryHandlerOfThePassInvoked ==
  NoReentry =>
    \A p \in 1..Len(passes) : \A j \in 1..Len(passes[p].start) :
      LET in == {i \in callsOf(passes[p].start[j]) : log[i].pass = p}
      IN /\ Cardinality(in) = 1
         /\ \A i \in in : DOMAIN log[i].map = topicsOf(passes[p].start[j])

\* C2: a join subscription made before any publish is not invoked while a
\* topic of its list is still unpublished, and is invoked exactly once, with
\* one entry per topic, at the publish that supplies the last missing topic.
C2_JoinFiresAtLastTopic ==
  NoReentry =>
    \A s \in 1..Len(subs) :
      (isJoin(s) /\ subs[s].pubsBefore = 0) =>
        LET done == {n \in 1..Len(pubs) : topicsOf(s) \subseteq publishedBy(n)}
        IN IF done = {} THEN callsOf(s) = {}
           ELSE LET n0 == CHOOSE n \in done : \A x \in done : n <= x
                    upTo == {i \in callsOf(s) : log[i].npubs <= n0}
                IN /\ Cardinality(upTo) = 1
                   /\ \A i \in upTo : /\ log[i].pid = n0
                                      /\ DOMAIN log[i].map = topicsOf(s)

\* C3: the map a completion pass hands to a join handler holds, for each
\* topic, the data of the latest publish of that topic.
C3_MapHoldsLatestPayload ==
  NoReentry =>
    \A i \in 1..Len(log) :
      log[i].via = "pass" =>
        \A t \in DOMAIN log[i].map : log[i].map[t] = latest(t, log[i].npubs)

\* C4: a persistent join subscription that its group holds has been invoked
\* at least once for every time all the topics of the group have been
\* published anew since the subscription was made.
C4_PersistentJoinFiresEveryCycle ==
  NoReentry =>
    \A s \in 1..Len(subs) :
      (isJoin(s) /\ ~subs[s].isOnce /\ inGroup(s)) =>
        Cardinality(callsOf(s)) >=
          cycles(topicsOf(s), subs[s].pubsBefore + 1, topicsOf(s))

\* C5: the handler of a once join subscription is invoked at most one time,
\* handlers that publish a topic of their own group included.
C5_OnceJoinAtMostOnce ==
  \A s \in 1..Len(subs) :
    (isJoin(s) /\ subs[s].isOnce) => Cardinality(callsOf(s)) <= 1

\* C9: the dataList of a join group never holds more entries than the group
\* has topics, whatever the topic strings are.
C9_PendingMapWithinTopicList ==
  \A i \in DOMAIN multiSubList :
    Cardinality(DOMAIN multiSubList[i].dataList) <= Len(multiSubList[i].messageIds)

C6_OnceSingleAtMostOnce ==
  \A s \in 1..Len(subs) :
    (isSingle(s) /\ subs[s].isOnce) =>
      /\ Cardinality(callsOf(s)) <= 1
      /\ ( /\ storePub /\ subs[s].subPublished
           /\ subs[s].messageIds[1] \in publishedBy(subs[s].pubsBefore) ) =>
           /\ Cardinality(callsInSub(s)) = 1
           /\ callsOf(s) = callsInSub(s)
           /\ ~registered(s, subs[s].messageIds[1])

\* C6 witness: a once subscription that was replayed, and a publish of its
\* topic after it
C6_Witness ==
  \E s \in 1..Len(subs) :
    /\ isSingle(s) /\ subs[s].isOnce
    /\ callsInSub(s) # {}
    /\ \E n \in (subs[s].pubsBefore + 1)..Len(pubs) : pubs[n].topic = subs[s].messageIds[1]

\* C7: with the store on, a sub(T, handler) with default arguments made
\* after publishes of T invokes the handler inside the sub call, exactly once,
\* with the data of the last publish of T.
C7_ReplayOfLatest ==
  storePub =>
    \A s \in 1..Len(subs) :
      ( /\ isSingle(s) /\ subs[s].isOnce /\ subs[s].subPublished
        /\ subs[s].messageIds[1] \in publishedBy(subs[s].pubsBefore) ) =>
        /\ Cardinality(callsInSub(s)) = 1
        /\ \A i \in callsInSub(s) :
             /\ log[i].via = "replay"
             /\ log[i].data = latest(subs[s].messageIds[1], subs[s].pubsBefore)

\* C7 witness: a replay after two publishes of the topic
C7_Witness ==
  /\ storePub
  /\ \E s \in 1..Len(subs) :
       /\ isSingle(s) /\ subs[s].isOnce /\ subs[s].subPublished
       /\ Cardinality({n \in 1..subs[s].pubsBefore :
                         pubs[n].topic = subs[s].messageIds[1]}) >= 2
       /\ callsInSub(s) # {}

\* the persistent subscriptions on topic t whose sub call had returned before
\* the n-th pub call, in the order they were made
RECURSIVE persistentOn(_, _, _)
persistentOn(t, n, s) ==
  IF s > Len(subs) THEN <<>>
  ELSE IF /\ isSingle(s) /\ ~subs[s].isOnce
          /\ subs[s].messageIds[1] = t
          /\ subs[s].pubsBefore + subs[s].pubsInside < n
       THEN <<s>> \o persistentOn(t, n, s + 1)
       ELSE persistentOn(t, n, s + 1)

\* the persistent subscriptions on one topic the n-th pub call has invoked,
\* in the order of the invocations
invokedBy(n) ==
  LET hits == SelectSeq(log, LAMBDA e : /\ e.via = "emit" /\ e.pid = n
                                        /\ isSingle(e.sub) /\ ~subs[e.sub].isOnce)
  IN [k \in 1..Len(hits) |-> hits[k].sub]

\* C8: every pub call invokes each persistent subscription on its topic whose
\* sub call had returned before it exactly once, in the order the subscriptions were made,
\* and no other persistent subscription on one topic.
C8_PersistentSingleEveryPublish ==
  \A n \in 1..Len(pubs) : invokedBy(n) = persistentOn(pubs[n].topic, n, 1)

\* C8 witness: a publish that invoked two persistent subscriptions after an
\* earlier publish had invoked one of them
C8_Witness ==
  \E n \in 1..Len(pubs), k \in 1..Len(pubs) :
    /\ k < n
    /\ Len(invokedBy(n)) = 2
    /\ Len(invokedBy(k)) >= 1

\* C11: with storePub false, no sub call invokes the handler it is given,
\* on one topic or on several, however many publishes came before; a handler
\* is invoked only by a publish made after its sub call.
C11_NoReplayWithoutStore ==
  ~storePub =>
    \A s \in 1..Len(subs) :
      /\ callsInSub(s) = {}
      /\ \A i \in callsOf(s) : /\ log[i].via # "replay"
                               /\ log[i].pid > subs[s].pubsBefore

\* C11 witness: storePub is false, a subscription on one topic and a join
\* subscription were both made after publishes of all their topics, and a
\* later publish has invoked one of them
C11_Witness ==
  /\ ~storePub
  /\ \E s \in 1..Len(subs), r \in 1..Len(subs) :
       /\ isSingle(s) /\ isJoin(r)
       /\ topicsOf(s) \subseteq publishedBy(subs[s].pubsBefore)
       /\ topicsOf(r) \subseteq publishedBy(subs[r].pubsBefore)
       /\ callsOf(s) # {}

\* the subscription s on one topic has its handler on the emitter when n
\* publishes have been made: it is persistent, or no publish up to the n-th
\* and no replay has invoked it
subscribedAt(s, n) ==
  /\ subs[s].valid /\ isSingle(s)
  /\ ~subs[s].isOnce \/ \A i \in callsOf(s) : log[i].pid > n

\* C12: a sub call with no topic or with no handler raises nothing, leaves
\* no listener and no group behind, and publishes one report on "error",
\* which every handler subscribed to "error" at that time receives.
C12_InvalidSubReportsOnce ==
  \A s \in 1..Len(subs) :
    ~subs[s].valid =>
      /\ ~threw
      /\ callsOf(s) = {}
      /\ \A t \in DOMAIN events : \A k \in 1..Len(events[t]) : events[t][k].fn # userFn(s)
      /\ multiSubList = EmptyMap
      /\ subs[s].pubsInside = 1
      /\ pubs[subs[s].pubsBefore + 1] =
           [topic |-> ErrorTopic, data |-> errReport, arg |-> errReport]
      /\ \A r \in 1..(s - 1) :
           (subs[r].messageIds = <<ErrorTopic>> /\ subscribedAt(r, subs[s].pubsBefore))
             => \E i \in callsOf(r) : /\ log[i].pid = subs[s].pubsBefore + 1
                                      /\ log[i].data = errReport

\* the last of the first n publishes that was a publish of t
lastPub(t, n) ==
  CHOOSE i \in 1..n : pubs[i].topic = t /\ \A j \in (i + 1)..n : pubs[j].topic # t

\* C13: a publish without data is stored and delivered as null, and the
\* topic counts as published: a later sub call that asks for replay is
\* replayed null inside the call, and a sub call on a topic that was never
\* published is replayed nothing.
C13_AbsentPayloadIsNull ==
  /\ \A n \in 1..Len(pubs) : pubs[n].arg = Undefined => pubs[n].data = Null
  /\ \A i \in 1..Len(log) :
       (log[i].via = "emit" /\ pubs[log[i].pid].arg = Undefined) => log[i].data = Null
  /\ storePub =>
       \A t \in publishedBy(Len(pubs)) :
         /\ t \in DOMAIN publishedMessages
         /\ pubs[lastPub(t, Len(pubs))].arg = Undefined => publishedMessages[t] = Null
  /\ \A s \in 1..Len(subs) :
       (isSingle(s) /\ storePub /\ subs[s].subPublished) =>
         LET t == subs[s].messageIds[1]
             n == subs[s].pubsBefore
         IN /\ (t \in publishedBy(n) /\ pubs[lastPub(t, n)].arg = Undefined)
                 => /\ Cardinality(callsInSub(s)) = 1
                    /\ \A i \in callsInSub(s) : log[i].via = "replay" /\ log[i].data = Null
            /\ t \notin publishedBy(n) => callsInSub(s) = {}

\* C13 witness: a topic published without data was replayed to a later sub
\* call, and a sub call on a topic never published got nothing
C13_Witness ==
  /\ storePub
  /\ \E s \in 1..Len(subs), r \in 1..Len(subs) :
       /\ isSingle(s) /\ isSingle(r)
       /\ subs[s].messageIds[1] \in publishedBy(subs[s].pubsBefore)
       /\ pubs[lastPub(subs[s].messageIds[1], subs[s].pubsBefore)].arg = Undefined
       /\ \E i \in callsInSub(s) : log[i].data = Null
       /\ subs[r].messageIds[1] \notin publishedBy(subs[r].pubsBefore)
       /\ callsInSub(r) = {}

\* the topics published by the publishes after the n-th
publishedAfter(n) == {pubs[i].topic : i \in (n + 1)..Len(pubs)}

\* C14: the sub call that creates a group makes every topic of the list
\* reach the group, whatever isOnce and subPublished are and whichever
\* topics were published before: once every topic has been replayed to the
\* group or published after the call, the handler has been invoked.
C14_EveryTopicReachesNewGroup ==
  \A s \in 1..Len(subs) :
    (isJoin(s) /\ ~subs[s].existed) =>
      LET replayed == IF storePub /\ subs[s].subPublished
                      THEN topicsOf(s) \cap publishedBy(subs[s].pubsBefore)
                      ELSE {}
      IN topicsOf(s) \subseteq (replayed \cup publishedAfter(subs[s].pubsBefore))
           => callsOf(s) # {}

\* C15: a pub call changes the dataList only of groups whose messageIds
\* hold a published topic as an element; a topic that is a substring of a
\* topic of the group, or of its key, changes nothing in it.
C15_PubChangesOnlyGroupsOfTopic ==
  [][subs' = subs =>
       \A key \in DOMAIN multiSubList \cap DOMAIN multiSubList' :
         multiSubList'[key].dataList # multiSubList[key].dataList =>
           \E n \in (Len(pubs) + 1)..Len(pubs') :
             \E k \in 1..Len(multiSubList[key].messageIds) :
               multiSubList[key].messageIds[k] = pubs'[n].topic]_vars

\* C16: between calls no group holds a complete dataList: the write that
\* makes the number of entries equal to the number of topics, by an adapter
\* or by the overwrite at the start of pub, is followed in the same call
\* by the pass over the handlers and the clearing of the dataList.
C16_NoCompleteMapBetweenCalls ==
  \A key \in DOMAIN multiSubList :
    Cardinality(DOMAIN multiSubList[key].dataList) # Len(multiSubList[key].messageIds)

\* the sub call of s is the last call made
lastCall(s) == subs[s].call = nTop + Len(subs)

\* C17: a sub call on a list whose group exists.  When storePub is true,
\* subPublished is true and every topic of the list has a stored value, the
\* handler is invoked inside the call and is added to the group only if
\* isOnce is false; in every other case the handler is not invoked by the
\* call and is added to the group.
C17_JoinOfExistingGroup ==
  \A s \in 1..Len(subs) :
    (isJoin(s) /\ subs[s].existed) =>
      LET full == /\ storePub /\ subs[s].subPublished
                  /\ topicsOf(s) \subseteq publishedBy(subs[s].pubsBefore)
      IN IF full
         THEN /\ Cardinality(callsInSub(s)) = 1
              /\ \A i \in callsInSub(s) : log[i].via = "replay"
              /\ (lastCall(s) /\ ~subs[s].re) => (inGroup(s) <=> ~subs[s].isOnce)
         ELSE /\ callsInSub(s) = {}
              /\ lastCall(s) => inGroup(s)

\* the sub calls that created a group for the list ids
creators(ids) ==
  {s \in 1..Len(subs) : isJoin(s) /\ subs[s].messageIds = ids /\ ~subs[s].existed}
\* the passes over the handlers of the group of ids
passesOf(ids) == {p \in 1..Len(passes) : passes[p].key = join(ids)}

\* C18: a group is deleted by a pass that leaves it no handler and by
\* nothing else.  Between calls every group holds a handler; a group with a
\* persistent handler stays; every group made after the first of a list was
\* made after a pass over the one before; and a sub call that makes a group
\* anew starts it with its own handler alone and with no entry of the old
\* dataList.
C18_GroupDeletedWhenEmpty ==
  /\ \A key \in DOMAIN multiSubList : Len(multiSubList[key].handlers) >= 1
  /\ \A s \in 1..Len(subs) :
       (isJoin(s) /\ ~subs[s].existed) =>
         LET ids == subs[s].messageIds
             key == join(ids)
         IN /\ ~subs[s].isOnce => inGroup(s)
            /\ Cardinality(creators(ids)) <=
                 Cardinality(passesOf(ids)) + (IF key \in DOMAIN multiSubList THEN 1 ELSE 0)
            /\ (lastCall(s) /\ key \in DOMAIN multiSubList) =>
                 /\ multiSubList[key].handlers =
                      <<[handler |-> s, subPublished |-> subs[s].subPublished,
                         isOnce |-> subs[s].isOnce]>>
                 /\ ~(storePub /\ subs[s].subPublished)
                      => multiSubList[key].dataList = EmptyMap
                 /\ \A t \in DOMAIN multiSubList[key].dataList :
                      /\ t \in topicsOf(s) \cap DOMAIN publishedMessages
                      /\ multiSubList[key].dataList[t] = publishedMessages[t]
            /\ (lastCall(s) /\ key \notin DOMAIN multiSubList) =>
                 /\ subs[s].isOnce
                 /\ \E i \in callsInSub(s) : DOMAIN log[i].map = topicsOf(s)

\* C18 witness: a group was made, a pass left it no handler and deleted it,
\* and the next sub call on the same list made a group anew, which is there
C18_Witness ==
  \E s \in 1..Len(subs), r \in 1..Len(subs) :
    /\ r < s /\ lastCall(s)
    /\ {r, s} \subseteq creators(subs[s].messageIds)
    /\ callsInSub(r) = {} /\ callsOf(r) # {}
    /\ inGroup(s) /\ ~inGroup(r)
    /\ subs[s].pubsBefore >= 2

\* C19: a sub call on one topic.  With subPublished true, isOnce false and a
\* stored value of the topic, the handler is invoked inside the call with
\* that value and is registered as well: it stays registered, and every
\* publish of the topic after the call invokes it once more.  With
\* subPublished false the handler is not invoked inside the call and is
\* registered: it is on the emitter until, when isOnce, a publish has
\* invoked it.
C19_ReplayThenPersistent ==
  \A s \in 1..Len(subs) :
    isSingle(s) =>
      LET t == subs[s].messageIds[1]
          n == subs[s].pubsBefore
          ret == n + subs[s].pubsInside
          later == {i \in (ret + 1)..Len(pubs) : pubs[i].topic = t}
      IN /\ (subs[s].subPublished /\ ~subs[s].isOnce /\ storePub /\ t \in publishedBy(n))
              => /\ \E i \in callsInSub(s) :
                      /\ log[i].via = "replay"
                      /\ log[i].data = pubs[lastPub(t, n)].data
                      /\ \A j \in callsInSub(s) : log[j].via = "replay" => j = i
                 /\ registered(s, t)
                 /\ \A p \in later :
                      Cardinality({i \in callsOf(s) : log[i].pid = p}) = 1
         /\ ~subs[s].subPublished
              => /\ callsInSub(s) = {}
                 /\ registered(s, t) \/ (subs[s].isOnce /\ callsOf(s) # {})
                 /\ ~subs[s].isOnce =>
                      \A p \in later :
                        Cardinality({i \in callsOf(s) : log[i].pid = p}) = 1

\* C19 witness: a persistent handler subscribed with replay to a published
\* topic was replayed and then invoked by a later publish, and a handler
\* subscribed to a published topic without replay was invoked only later
C19_Witness ==
  /\ storePub
  /\ \E s \in 1..Len(subs), r \in 1..Len(subs) :
       /\ isSingle(s) /\ isSingle(r)
       /\ subs[s].subPublished /\ ~subs[s].isOnce
       /\ subs[s].messageIds[1] \in publishedBy(subs[s].pubsBefore)
       /\ \E i \in callsOf(s) : log[i].via = "replay"
       /\ \E i \in callsOf(s) : log[i].via = "emit"
       /\ ~subs[r].subPublished
       /\ subs[r].messageIds[1] \in publishedBy(subs[r].pubsBefore)
       /\ callsInSub(r) = {} /\ callsOf(r) # {}

====
